---- MODULE Spec2Model ----
(***************************************************************************)
(* Model of the multilingual resume assistant: the ChromaDB collections    *)
(* written and queried by SemanticMatchingService, the Scripts/ helpers    *)
(* and the web API, the translation services with their model caches, the  *)
(* resume parsers, the interview question generator with the concurrent    *)
(* generation calls of /api/match-candidates, and the batch loops.         *)
(*                                                                         *)
(* The parts share no state but the record of the last call, so each       *)
(* property is checked under the specification of the part it is about.    *)
(*                                                                         *)
(* Numbers that stand for distances and similarity scores are integers in  *)
(* units of 10^-5, so that 1.0 is One == 100000 and rounding to four       *)
(* decimals is rounding to a multiple of 10.                               *)
(***************************************************************************)
EXTENDS Integers, Sequences, FiniteSets

VARIABLES
    resumes,            \* the collection "resumes" of SemanticMatchingService
    resume_collection,  \* the collection "resume_collection" of Scripts/ and app.py
    loaded_models,      \* TranslationService.loaded_models: the cached languages
    loads,              \* successful model loads of TranslationService, per language
    script_loads,       \* successful model loads of Scripts/translate_resumes.py
    _generator,         \* the global _generator of interview_question_generator.py
    generator_loads,    \* successful loads of the generator model
    request,            \* the /api/match-candidates request in flight
    batch,              \* the batch loop that is running, with its counters
    result              \* what the last call was given and what it returned

vars == <<resumes, resume_collection, loaded_models, loads, script_loads,
          _generator, generator_loads, request, batch, result>>

storeVars == <<resumes, resume_collection>>
translationVars == <<loaded_models, loads, script_loads>>
genVars == <<_generator, generator_loads, request>>

(* ------------------------------ bounds -------------------------------- *)

MaxId == 2
MaxK == 2
MaxBatch == 1
MaxLoads == 2
MaxItems == 2
MaxLines == 4

(* --------------------------- program constants ------------------------ *)

min_text_length == 50

detection_min_length == 10

\* n_results of the /api/match-candidates query, and TOP_K of
\* Scripts/semantic_matching.py
match_n_results == 5

TOP_K == 5

One == 100000

(* ------------------------------ inputs -------------------------------- *)

\* Document ids; NoId stands for the empty string.
Ids == 1..MaxId
NoId == 0

\* Texts are tokens.  Text 0 is the empty string, text 1 is an English text
\* too short for language detection and for the service's store, text 2 is a
\* French text and text 3 an English text, both long enough.
Texts == {0, 1, 2, 3}

\* The texts long enough for the service's store.
LongTexts == {2, 3}

\* len(text.strip()); a translation is as long as the text it renders.
StrippedLen(t) ==
    IF t = 0 THEN 0
    ELSE IF t = 1 \/ t = 0 - 1 THEN detection_min_length - 1
    ELSE min_text_length + (IF t < 0 THEN 0 - t ELSE t)

\* The texts given to the parsers: text 4 is a long Italian text, a language
\* the translation service has no model for.
ParserTexts == Texts \cup {4}

\* The language the detector finds in a text (translations are English).
LangSeq == <<"en", "fr", "en", "it">>

LangOf(t) == IF t <= 0 THEN "en" ELSE LangSeq[t]

\* The English text the translation model produces for text t: a text
\* different from every input text.
Translation(t) == 0 - t

\* Cosine distances the store reports, in [0, 2].
DistSeq == <<0, 49996, 100000, 150004, 200000>>

\* The embedding model is an opaque deterministic function of the text, so
\* the distance between a query text and a document text is a fixed table.
Distance(q, t) == DistSeq[((2 * q + t) % Len(DistSeq)) + 1]

\* Query texts are texts; text 0 is the empty query.
TopKs == 1..MaxK

MinScores == {0 - 50000, 0, 50000}

DocTypes == {"resume", "job"}

Min(a, b) == IF a < b THEN a ELSE b

(* ------------------------- the ChromaDB collection --------------------- *)

\* collection.add: inserts the record; an id that is already present in the
\* collection is left as it is (the add of an existing id is ignored).
CollectionAdd(coll, id, text, type) ==
    IF id \in DOMAIN coll
    THEN coll
    ELSE [i \in (DOMAIN coll) \cup {id} |->
            IF i = id THEN [text |-> text, type |-> type] ELSE coll[i]]

WhereMatchesIgnored(doc, where) == TRUE

\* The where={"type": t} clause of collection.query; "none" is a query
\* without a where clause.
WhereMatches(doc, where) == where = "none" \/ doc.type = where

\* The distance of the stored document id to the query text q.
DocDistance(coll, q, id) == Distance(q, coll[id].text)

\* Ascending distance; documents at the same distance keep their id order.
RECURSIVE SortByDistance(_, _, _)
SortByDistance(coll, S, q) ==
    IF S = {} THEN <<>>
    ELSE LET m == CHOOSE x \in S : \A y \in S :
                      \/ DocDistance(coll, q, x) < DocDistance(coll, q, y)
                      \/ DocDistance(coll, q, x) = DocDistance(coll, q, y) /\ x <= y
         IN <<m>> \o SortByDistance(coll, S \ {m}, q)

\* collection.query: the ids of the n_results nearest documents that satisfy
\* the where clause, by ascending distance.
CollectionQuery(coll, q, n_results, where) ==
    LET hits == SortByDistance(coll, {i \in DOMAIN coll : WhereMatches(coll[i], where)}, q)
    IN SubSeq(hits, 1, Min(n_results, Len(hits)))

CollectionCount(coll) == Cardinality(DOMAIN coll)

(* ------------------------ SemanticMatchingService ---------------------- *)

\* round(x, 4): nearest multiple of 10^-4, halves to the even neighbour.
Round4(x) ==
    LET q == x \div 10
        r == x % 10
    IN IF r < 5 THEN q * 10
       ELSE IF r > 5 THEN (q + 1) * 10
       ELSE IF q % 2 = 0 THEN q * 10 ELSE (q + 1) * 10

SimilarityAsDistance(distance) == distance

\* similarity_score = 1 - distance
Similarity(distance) == One - distance

PassesThresholdInverted(similarity_score, min_score) == similarity_score <= min_score

\* if similarity_score >= min_score
PassesThreshold(similarity_score, min_score) == similarity_score >= min_score

\* The loop of find_matching_resumes / find_matching_jobs over the query
\* result: rank is the position in the query result, the score is rounded
\* after the threshold test.
FindMatches(coll, q, top_k, min_score, type) ==
    LET hits == CollectionQuery(coll, q, top_k, type)
        kept == SelectSeq([i \in 1..Len(hits) |-> i],
                          LAMBDA i : PassesThreshold(
                                        Similarity(DocDistance(coll, q, hits[i])), min_score))
    IN [j \in 1..Len(kept) |->
          [id |-> hits[kept[j]],
           similarity_score |-> Round4(Similarity(DocDistance(coll, q, hits[kept[j]]))),
           type |-> coll[hits[kept[j]]].type,
           text |-> coll[hits[kept[j]]].text,
           rank |-> kept[j]]]

\* What a find_matching_* call returns: collection.query raises when the
\* embedding or the store fails, and the handler of the method then returns
\* the empty list.
FindMatchingResult(coll, q, top_k, min_score, type, store_ok) ==
    IF store_ok
    THEN FindMatches(coll, q, top_k, min_score, type)
    ELSE <<>>

\* The loop of batch_similarity_search for one query: no threshold test.
BatchMatches(coll, q, top_k, type) ==
    LET hits == CollectionQuery(coll, q, top_k, type)
    IN [i \in 1..Len(hits) |->
          [id |-> hits[i],
           similarity_score |-> Round4(Similarity(DocDistance(coll, q, hits[i]))),
           type |-> coll[hits[i]].type,
           text |-> coll[hits[i]].text,
           rank |-> i]]

(* --------------------------- translation ------------------------------ *)

supported_languages_with_it == {"fr", "es", "de", "it"}

\* TranslationService.supported_languages (its keys).
supported_languages == {"fr", "es", "de"}

\* The keys of LANG_TO_MODEL in Scripts/translate_resumes.py.
DOMAIN_LANG_TO_MODEL == {"fr", "es", "de"}

\* Language codes given to or produced by the services; "None" is an omitted
\* source_language and "unknown" is what the script's detection returns when
\* the detector throws.
Langs == {"en", "fr", "es", "de", "it"}

\* What the environment does to a translation call: the model directory is
\* missing, from_pretrained throws, or the translation run throws.
Envs == {"ok", "no_path", "load_fails", "run_fails"}

\* TranslationService.detect_language: the language code, or the error raised.
detect_language(text, detect_ok) ==
    IF text = 0 THEN "ValueError"
    ELSE IF StrippedLen(text) < detection_min_length \/ ~detect_ok
    THEN "LanguageDetectionError"
    ELSE LangOf(text)

\* detect_language of Scripts/translate_resumes.py: any failure of the
\* detector becomes the code "unknown".
script_detect_language(text, detect_ok) ==
    IF text = 0 \/ ~detect_ok THEN "unknown" ELSE LangOf(text)

\* TranslationService.load_model: the status, the cache afterwards and
\* whether a model was loaded from disk by this call.
load_model(cache, language_code, env) ==
    IF language_code \notin supported_languages
    THEN [status |-> "ValueError", cache |-> cache, attempted |-> FALSE, loaded |-> FALSE]
    ELSE IF language_code \in cache
    THEN [status |-> "return", cache |-> cache, attempted |-> FALSE, loaded |-> FALSE]
    ELSE IF env = "no_path"
    THEN [status |-> "ModelLoadingError", cache |-> cache, attempted |-> FALSE,
          loaded |-> FALSE]
    ELSE IF env = "load_fails"
    THEN [status |-> "ModelLoadingError", cache |-> cache, attempted |-> TRUE,
          loaded |-> FALSE]
    ELSE [status |-> "return", cache |-> cache \cup {language_code}, attempted |-> TRUE,
          loaded |-> TRUE]

\* load_model_tokenizer of Scripts/translate_resumes.py: no cache.
load_model_tokenizer(lang_code, env) ==
    IF lang_code \notin DOMAIN_LANG_TO_MODEL \/ env = "no_path"
    THEN [status |-> "ValueError", attempted |-> FALSE, loaded |-> FALSE]
    ELSE IF env = "load_fails"
    THEN [status |-> "raise", attempted |-> TRUE, loaded |-> FALSE]
    ELSE [status |-> "return", attempted |-> TRUE, loaded |-> TRUE]

\* translate_text of Scripts/translate_resumes.py: the text returned, with
\* what the call did on the way.
script_translate_text(text, lang_code, env) ==
    LET lm == load_model_tokenizer(lang_code, env)
    IN IF lm.status = "return" /\ env # "run_fails"
       THEN [out_text |-> Translation(text), attempted |-> lm.attempted,
             loaded |-> lm.loaded, generated |-> TRUE, failed |-> FALSE]
       ELSE [out_text |-> text, attempted |-> lm.attempted, loaded |-> lm.loaded,
             generated |-> lm.loaded, failed |-> TRUE]

TranslationFailedRaises(text, source_language) ==
    [status |-> "ModelLoadingError", out_text |-> 0, out_lang |-> "None"]

\* The except branch of translate_text: the original text is returned.
TranslationFailed(text, source_language) ==
    [status |-> "return", out_text |-> text, out_lang |-> source_language]

\* The unsupported-language branch of translate_text.
PassThrough(text, source_language) ==
    [status |-> "return", out_text |-> text, out_lang |-> source_language]

(* ------------------------------- parsing ------------------------------ *)

confidence_threshold == 70000

\* What the extractors can find in a text: an e-mail address, a phone
\* number, a digit 1..9 anywhere, a PERSON entity, lines that name a degree
\* or a job, skill keywords, the words "skills" and "experience", and the
\* entries the section parsers of ResumeParser build.
NoFeatures ==
    [email |-> FALSE, phone |-> FALSE, digits |-> FALSE, person |-> FALSE,
     degree_lines |-> 0, job_lines |-> 0, skill_keywords |-> 0,
     skills_word |-> FALSE, experience_word |-> FALSE,
     education_entries |-> 0, experience_entries |-> 0]

\* The English text 3 is a full resume, the French text 2 holds contact
\* data and no English keyword, its translation holds the keywords of one
\* job, and the short text 1 holds a name only.
FullFeatures ==
    [email |-> TRUE, phone |-> FALSE, digits |-> TRUE, person |-> TRUE,
     degree_lines |-> 1, job_lines |-> 2, skill_keywords |-> 2,
     skills_word |-> TRUE, experience_word |-> TRUE,
     education_entries |-> 1, experience_entries |-> 1]

Features(t) ==
    IF t = 3 \/ t = 0 - 3 THEN FullFeatures
    ELSE IF t = 2
    THEN [NoFeatures EXCEPT !.email = TRUE, !.phone = TRUE, !.digits = TRUE,
                            !.person = TRUE]
    ELSE IF t = 0 - 2
    THEN [NoFeatures EXCEPT !.email = TRUE, !.phone = TRUE, !.digits = TRUE,
                            !.person = TRUE, !.job_lines = 1, !.skill_keywords = 1,
                            !.experience_word = TRUE, !.experience_entries = 1]
    ELSE IF t = 1 \/ t = 0 - 1
    THEN [NoFeatures EXCEPT !.person = TRUE]
    ELSE NoFeatures

\* A scalar field: the value found, or None.
Scalar(found) == IF found THEN "found" ELSE "None"

\* What spaCy does in a call: it works, the model was never loaded (nlp is
\* None in Scripts/parse_resumes.py), or the call throws.
NlpStates == {"ok", "missing", "throws"}

\* parse_resume and parse_resume_basic of Scripts/parse_resumes.py: the
\* record has no confidence field, and the name is None without spaCy.
script_parse_resume(text, nlp) ==
    [name |-> Scalar(nlp = "ok" /\ Features(text).person),
     email |-> Scalar(Features(text).email),
     phone |-> Scalar(Features(text).phone),
     education |-> Features(text).degree_lines,
     experience |-> Features(text).job_lines,
     skills |-> Features(text).skill_keywords,
     text |-> text]

\* ResumeParser._calculate_skill_confidence for a keyword found in the text
_calculate_skill_confidence(f) ==
    IF f.skills_word THEN 90000
    ELSE IF f.experience_word THEN 80000
    ELSE 60000

\* ResumeParser._extract_skills: the number of skills kept.
_extract_skills(f) ==
    IF _calculate_skill_confidence(f) >= confidence_threshold
    THEN f.skill_keywords
    ELSE 0

RECURSIVE SumSeq(_)
SumSeq(s) == IF s = <<>> THEN 0 ELSE Head(s) + SumSeq(Tail(s))

\* The scores list of _calculate_confidence: one score per part that was
\* found, the skills with 0.8 times the mean of their confidences.
ConfidenceScores(parsed_data) ==
       (IF parsed_data.email = "found" THEN <<80000>> ELSE <<>>)
    \o (IF parsed_data.name = "found" THEN <<70000>> ELSE <<>>)
    \o (IF parsed_data.phone = "found" THEN <<60000>> ELSE <<>>)
    \o (IF parsed_data.skill_confidences # <<>>
        THEN <<((SumSeq(parsed_data.skill_confidences)
                    \div Len(parsed_data.skill_confidences)) * 8) \div 10>>
        ELSE <<>>)
    \o (IF parsed_data.education > 0 THEN <<70000>> ELSE <<>>)
    \o (IF parsed_data.experience > 0 THEN <<70000>> ELSE <<>>)

MeanOverAllSignals(scores) == SumSeq(scores) \div 6

\* sum(scores) / len(scores) if scores else 0.0
Mean(scores) == IF scores = <<>> THEN 0 ELSE SumSeq(scores) \div Len(scores)

\* ResumeParser._calculate_confidence: the mean of the scores of the parts
\* that were found, 0.0 when nothing was found.
_calculate_confidence(parsed_data) == Mean(ConfidenceScores(parsed_data))

\* ResumeParser.validate_parsed_data; parse_resume sets resume_id and
\* parsing_timestamp in every record it builds.
validate_parsed_data(parsed_data) ==
    IF "extraction_confidence" \notin DOMAIN parsed_data
    THEN "DataValidationError"
    ELSE IF parsed_data.extraction_confidence < 0
            \/ parsed_data.extraction_confidence > One
    THEN "DataValidationError"
    ELSE "True"

\* The record ResumeParser.parse_resume builds from the text it extracts
\* from, before the confidence is computed.
ParsedData(translated_text, original_language) ==
    [original_language |-> original_language,
     skills |-> _extract_skills(Features(translated_text)),
     skill_confidences |->
         [i \in 1.._extract_skills(Features(translated_text)) |->
             _calculate_skill_confidence(Features(translated_text))],
     education |-> Features(translated_text).education_entries,
     experience |-> Features(translated_text).experience_entries,
     name |-> Scalar(Features(translated_text).person),
     email |-> Scalar(Features(translated_text).email),
     phone |-> Scalar(Features(translated_text).digits),
     extraction_confidence |-> 0]

NoParsed == [name |-> "None"]

\* The confidences _calculate_skill_confidence gives a skill it found.
SkillConfidences == {60000, 80000, 90000}

\* The records _calculate_confidence is given: every combination of the
\* parts found, with up to MaxItems skills, education and experience entries.
ParsedRecords ==
    [original_language : {"en"},
     skills : {0},
     skill_confidences : UNION {[1..n -> SkillConfidences] : n \in 0..MaxItems},
     education : 0..MaxItems,
     experience : 0..MaxItems,
     name : {"found", "None"},
     email : {"found", "None"},
     phone : {"found", "None"},
     extraction_confidence : {0}]

(* --------------------------- section scans ---------------------------- *)

\* A text is a sequence of lines and a line, once stripped and lowered, a
\* sequence of words; the blank line is the empty sequence.  A pattern is in
\* a line when it is one of its words.
Contains(line, pattern) == \E i \in 1..Len(line) : line[i] = pattern

AnyIn(line, patterns) == \E p \in patterns : Contains(line, p)

education_patterns ==
    {"education", "academic", "degree", "university", "college", "bachelor",
     "master", "phd", "diploma"}

\* The sections whose header ends the education scan.
education_terminators == {"experience", "work", "employment", "skills"}

experience_patterns ==
    {"experience", "work history", "employment", "professional experience", "career"}

experience_terminators == {"education", "skills", "projects"}

degree_patterns == {"bachelor", "master", "phd", "associate", "diploma"}

job_patterns == {"engineer", "developer", "manager", "analyst", "specialist", "consultant"}

\* The words that match (19|20)\d{2} between word boundaries.
Years == {"2018", "2019"}

\* re.search(r'\b(19|20)\d{2}\b', line): the first year of the line, or "".
YearOf(line) ==
    IF \E i \in 1..Len(line) : line[i] \in Years
    THEN line[CHOOSE i \in 1..Len(line) :
                 /\ line[i] \in Years
                 /\ \A j \in 1..(i - 1) : line[j] \notin Years]
    ELSE ""

\* date_pattern of _parse_experience_entries: a year followed by a year, by
\* "present" or by "now".
HasDuration(line) ==
    \E i \in 1..Len(line) : \E j \in (i + 1)..Len(line) :
        line[i] \in Years /\ line[j] \in Years \cup {"present", "now"}

\* The body of the loops of _extract_education and _extract_experience for a
\* line that is not a section pattern: the line is collected first, the test
\* for the next section comes after it.
SectionScanStep(line, in_section, collected, terminators) ==
    [stop |-> in_section /\ AnyIn(line, terminators),
     collected |-> IF in_section /\ line # <<>>
                   THEN Append(collected, line) ELSE collected]

\* The loops over the lines of _extract_education and _extract_experience:
\* the lines collected into education_text or experience_text.
RECURSIVE SectionText(_, _, _, _, _)
SectionText(lines, in_section, collected, patterns, terminators) ==
    IF lines = <<>> THEN collected
    ELSE IF AnyIn(Head(lines), patterns)
    THEN SectionText(Tail(lines), TRUE, collected, patterns, terminators)
    ELSE LET step == SectionScanStep(Head(lines), in_section, collected, terminators)
         IN IF step.stop
            THEN step.collected
            ELSE SectionText(Tail(lines), in_section, step.collected, patterns,
                             terminators)

\* ResumeParser._parse_education_entries; current is the empty sequence for
\* the empty current_entry and holds the entry otherwise.
RECURSIVE _parse_education_entries(_, _, _)
_parse_education_entries(lines, entries, current) ==
    IF lines = <<>> THEN entries \o current
    ELSE LET line == Head(lines)
             rest == Tail(lines)
         IN IF line = <<>>
            THEN _parse_education_entries(rest, entries, current)
            ELSE IF AnyIn(line, degree_patterns)
            THEN _parse_education_entries(rest, entries \o current,
                     <<[degree |-> line, institution |-> <<>>, year |-> ""]>>)
            ELSE IF current # <<>> /\ current[1].institution = <<>>
            THEN _parse_education_entries(rest, entries,
                     <<[current[1] EXCEPT !.institution = line]>>)
            ELSE IF current # <<>> /\ current[1].year = ""
            THEN _parse_education_entries(rest, entries,
                     <<[current[1] EXCEPT !.year = YearOf(line)]>>)
            ELSE _parse_education_entries(rest, entries, current)

\* ResumeParser._parse_experience_entries
RECURSIVE _parse_experience_entries(_, _, _)
_parse_experience_entries(lines, entries, current) ==
    IF lines = <<>> THEN entries \o current
    ELSE LET line == Head(lines)
             rest == Tail(lines)
         IN IF line = <<>>
            THEN _parse_experience_entries(rest, entries, current)
            ELSE IF AnyIn(line, job_patterns)
            THEN _parse_experience_entries(rest, entries \o current,
                     <<[title |-> line, company |-> <<>>, duration |-> <<>>,
                        description |-> <<>>]>>)
            ELSE IF current # <<>> /\ current[1].company = <<>>
            THEN _parse_experience_entries(rest, entries,
                     <<[current[1] EXCEPT !.company = line]>>)
            ELSE IF current # <<>> /\ current[1].duration = <<>>
            THEN _parse_experience_entries(rest, entries,
                     IF HasDuration(line)
                     THEN <<[current[1] EXCEPT !.duration = line]>>
                     ELSE current)
            ELSE IF current # <<>>
            THEN _parse_experience_entries(rest, entries,
                     <<[current[1] EXCEPT !.description = Append(@, line)]>>)
            ELSE _parse_experience_entries(rest, entries, current)

\* ResumeParser._extract_education
_extract_education(lines) ==
    _parse_education_entries(
        SectionText(lines, FALSE, <<>>, education_patterns, education_terminators),
        <<>>, <<>>)

\* ResumeParser._extract_experience
_extract_experience(lines) ==
    _parse_experience_entries(
        SectionText(lines, FALSE, <<>>, experience_patterns, experience_terminators),
        <<>>, <<>>)

\* The lines of the texts given to the section scans.
LineKinds ==
    {<<>>, <<"education">>, <<"bachelor", "science">>, <<"associate", "arts">>,
     <<"mit">>, <<"2018">>, <<"experience">>, <<"skills">>, <<"engineer">>,
     <<"2019", "present">>}

ResumeLines == UNION {[1..n -> LineKinds] : n \in 0..MaxLines}

(* ---------------------- interview question generator ------------------ *)

\* What the model directory and the libraries do to load_generator: the
\* load works, the directory does not exist, model files are missing,
\* from_pretrained or pipeline throws, or the path exists and os.listdir on
\* it throws (a regular file, or a directory that cannot be read).
GenEnvs == {"ok", "no_dir", "missing_files", "load_throws", "unlistable"}

\* load_generator: what it returns or raises, the global afterwards, and
\* whether this call loaded the model.  With a path that cannot be listed
\* the os.listdir in the try block raises, and the os.listdir of the except
\* clause raises again, out of the function.
load_generator(generator, env) ==
    IF generator # "None"
    THEN [status |-> "return", generator |-> generator, loaded |-> FALSE]
    ELSE IF env = "ok"
    THEN [status |-> "return", generator |-> "pipeline", loaded |-> TRUE]
    ELSE IF env = "unlistable"
    THEN [status |-> "raise", generator |-> "None", loaded |-> FALSE]
    ELSE [status |-> "return", generator |-> "None", loaded |-> FALSE]

\* What the pipeline does with a prompt: it generates a text, throws,
\* returns an empty list, or generates a text that is blank once stripped.
RunOutcomes == {"ok", "throws", "no_output", "blank"}

\* Job titles: 0 is the empty title.
Titles == {0, 1}

\* The strings generate_interview_questions returns, by kind; the questions
\* are those of the prompt's resume snippet.
Message(kind) == [kind |-> kind, snippet |-> 0]

Questions(resume_snippet) == [kind |-> "questions", snippet |-> resume_snippet]

ErrorKinds == {"load_error", "required_error", "generation_error", "no_output_error"}

\* The try block of generate_interview_questions, once it has a generator.
generate_with(job_title, resume_snippet, run) ==
    IF job_title = 0 \/ resume_snippet = 0 THEN Message("required_error")
    ELSE IF run = "throws" THEN Message("generation_error")
    ELSE IF run = "no_output" THEN Message("no_output_error")
    ELSE IF run = "blank" THEN Message("blank")
    ELSE Questions(resume_snippet)

\* generate_interview_questions(job_title, resume_snippet, generator): the
\* generator is looked up or loaded before the try block.
generate_interview_questions(job_title, resume_snippet, generator, global, env, run) ==
    LET lg == IF generator # "None"
              THEN [status |-> "return", generator |-> global, loaded |-> FALSE]
              ELSE load_generator(global, env)
        used == IF generator # "None" THEN generator ELSE lg.generator
    IN IF lg.status = "raise"
       THEN [status |-> "raise", value |-> Message("none"), global |-> lg.generator,
             loaded |-> FALSE]
       ELSE IF used = "None"
       THEN [status |-> "return", value |-> Message("load_error"),
             global |-> lg.generator, loaded |-> FALSE]
       ELSE [status |-> "return",
             value |-> generate_with(job_title, resume_snippet, run),
             global |-> lg.generator, loaded |-> lg.loaded]

(* ------------------------- job description text ----------------------- *)

\* A string is a sequence of pieces: words, the blank " " and the line
\* break "\n".
Blanks == {" ", "\n"}

\* sep.join(strings)
RECURSIVE Join(_, _)
Join(sep, strings) ==
    IF strings = <<>> THEN <<>>
    ELSE IF Len(strings) = 1 THEN strings[1]
    ELSE strings[1] \o sep \o Join(sep, Tail(strings))

\* s.strip()
RECURSIVE Strip(_)
Strip(s) ==
    IF s = <<>> THEN <<>>
    ELSE IF Head(s) \in Blanks THEN Strip(Tail(s))
    ELSE IF s[Len(s)] \in Blanks THEN Strip(SubSeq(s, 1, Len(s) - 1))
    ELSE s

SectionSeparatorSingle == <<"\n">>

\* "\n\n", between the parts
SectionSeparator == <<"\n", "\n">>

\* A field of a job description: absent (or null), a string, a list of
\* strings, or a value of another type.
Absent == [kind |-> "absent", value |-> <<>>]

Other == [kind |-> "other", value |-> <<>>]

Str(s) == [kind |-> "str", value |-> s]

List(l) == [kind |-> "list", value |-> l]

\* The sequences over S of length at most n
SeqsUpTo(S, n) == UNION {[1..k -> S] : k \in 0..n}

TitleValues == {Absent, Str(<<>>), Str(<<"Engineer">>), Str(<<" ">>)}

DescriptionValues == {Absent, Str(<<>>), Str(<<"Builds", " ", "things">>)}

\* Requirements: the empty one, a plain one and one that ends in a blank.
RequirementItems == {<<>>, <<"degree">>, <<"team", " ">>}

RequirementsValues ==
    {Absent, Other} \cup {List(l) : l \in SeqsUpTo(RequirementItems, MaxItems)}

SkillItems == {<<"python">>, <<"sql", " ">>}

SkillsValues == {Absent, Other} \cup {List(l) : l \in SeqsUpTo(SkillItems, MaxItems)}

\* build_job_description_text of Scripts/semantic_matching.py
build_job_description_text(data) ==
    LET title ==
            IF data.title.kind = "str" /\ data.title.value # <<>>
            THEN << <<"Job Title:", " ">> \o data.title.value >>
            ELSE <<>>
        description ==
            IF data.description.kind = "str" /\ data.description.value # <<>>
            THEN << <<"Description:", " ">> \o data.description.value >>
            ELSE <<>>
        requirements ==
            IF data.requirements.kind = "list" /\ data.requirements.value # <<>>
            THEN << <<"Requirements:", "\n">>
                    \o Join(<<"\n">>, [i \in 1..Len(data.requirements.value) |->
                                          <<"-", " ">> \o data.requirements.value[i]]) >>
            ELSE <<>>
        skills ==
            IF data.skills.kind = "list" /\ data.skills.value # <<>>
            THEN << <<"Skills:", " ">> \o Join(<<",", " ">>, data.skills.value) >>
            ELSE <<>>
    IN Strip(Join(SectionSeparator, title \o description \o requirements \o skills))

NoResult ==
    [op |-> "none", status |-> "none", id |-> NoId, text |-> 0,
     query |-> 0, top_k |-> 0, min_score |-> 0, where |-> "none",
     store_ok |-> TRUE, existed |-> FALSE, matches |-> <<>>, batches |-> <<>>,
     count_before |-> 0,
     lang |-> "None", out_text |-> 0, out_lang |-> "None", failed |-> FALSE,
     load_calls |-> 0, generate_calls |-> 0, http |-> 0, parsed |-> NoParsed,
     value |-> Message("none"), data |-> <<>>,
     stages |-> <<>>, failed_stage |-> "none", nlp |-> "ok"]

\* No /api/match-candidates request in flight.
NoRequest ==
    [phase |-> "idle", query |-> 0, candidates_data |-> <<>>, pc |-> <<>>,
     questions_results |-> <<>>]

(* ----------------------- Scripts/ and the web API ---------------------- *)

\* metadata arguments of add_resume_to_store, by the type field they carry.
MetaTypes == {"absent", "resume", "job"}

\* The candidates of /api/match-candidates and the rows of get_top_matches:
\* the query has no where clause and the score is the distance itself.
Candidates(coll, q, n_results) ==
    LET hits == CollectionQuery(coll, q, n_results, "none")
    IN [i \in 1..Len(hits) |->
          [id |-> hits[i],
           text |-> coll[hits[i]].text,
           type |-> coll[hits[i]].type,
           score |-> DocDistance(coll, q, hits[i]),
           rank |-> i]]

(* ----------------------------- batch loops ----------------------------- *)

\* No batch loop has run.  A loop has todo files of its directory listing
\* left; eligible counts the files it has reached that have the extension it
\* works on, and processed (or translated, or added), skipped and errors are
\* its summary counters.
NoBatch ==
    [loop |-> "none", phase |-> "idle", todo |-> 0, eligible |-> 0,
     processed |-> 0, skipped |-> 0, errors |-> 0]

\* The file is counted in one counter.
Counted(counter) ==
    [batch EXCEPT !.todo = @ - 1, !.eligible = @ + 1, ![counter] = @ + 1]

\* The file has another extension: the loop passes over it.
PassedOver == [batch EXCEPT !.todo = @ - 1]

\* The loop goes on to the next file without counting this one.
NotCounted == [batch EXCEPT !.todo = @ - 1, !.eligible = @ + 1]

\* An exception leaves the loop.
LoopLeft == [batch EXCEPT !.phase = "aborted", !.eligible = @ + 1]

\* A batch starts on a directory of n files; when its set-up fails (a
\* directory is missing, the store or a model cannot be opened) no file is
\* looked at.
StartBatch(loop, n, setup_ok) ==
    [NoBatch EXCEPT !.loop = loop,
                    !.phase = IF setup_ok THEN "running" ELSE "not_started",
                    !.todo = IF setup_ok THEN n ELSE 0]

Running(loop) == batch.loop = loop /\ batch.phase = "running" /\ batch.todo > 0

Init ==
    /\ resumes = <<>>
    /\ resume_collection = <<>>
    /\ loaded_models = {}
    /\ loads = [l \in supported_languages |-> 0]
    /\ script_loads = [l \in DOMAIN_LANG_TO_MODEL |-> 0]
    /\ _generator = "None"
    /\ generator_loads = 0
    /\ request = NoRequest
    /\ batch = NoBatch
    /\ result = NoResult

\* add_resume_embedding / add_job_embedding share one body but for the type.
AddEmbedding(op, type) ==
    /\ UNCHANGED <<translationVars, genVars, batch>>
    /\ \E id \in Ids \cup {NoId}, text \in Texts :
        LET r == [NoResult EXCEPT !.op = op, !.id = id, !.text = text,
                                  !.count_before = CollectionCount(resumes),
                                  !.existed = (id \in DOMAIN resumes)]
        IN
        IF id = NoId \/ text = 0
        THEN /\ result' = [r EXCEPT !.status = "ValueError"]
             /\ UNCHANGED storeVars
        ELSE IF StrippedLen(text) < min_text_length
        THEN /\ result' = [r EXCEPT !.status = "DataValidationError"]
             /\ UNCHANGED storeVars
        ELSE \E store_ok \in BOOLEAN :
             IF ~store_ok
             THEN /\ result' = [r EXCEPT !.status = "False", !.store_ok = FALSE]
                  /\ UNCHANGED storeVars
             ELSE /\ resumes' = CollectionAdd(resumes, id, text, type)
                  /\ UNCHANGED resume_collection
                  /\ result' = [r EXCEPT !.status = "True"]

AddResumeEmbedding == AddEmbedding("add_resume_embedding", "resume")

AddJobEmbedding == AddEmbedding("add_job_embedding", "job")

FindMatching(op, type) ==
    /\ UNCHANGED <<storeVars, translationVars, genVars, batch>>
    /\ \E q \in Texts :
        LET r == [NoResult EXCEPT !.op = op, !.query = q, !.where = type]
        IN
        IF q = 0
        THEN result' = [r EXCEPT !.status = "ValueError"]
        ELSE \E top_k \in TopKs, min_score \in MinScores, store_ok \in BOOLEAN :
             result' = [r EXCEPT !.status = "return", !.top_k = top_k,
                                 !.min_score = min_score, !.store_ok = store_ok,
                                 !.matches = FindMatchingResult(resumes, q, top_k,
                                                 min_score, type, store_ok)]

FindMatchingResumes == FindMatching("find_matching_resumes", "resume")

FindMatchingJobs == FindMatching("find_matching_jobs", "job")

BatchSimilaritySearch ==
    /\ UNCHANGED <<storeVars, translationVars, genVars, batch>>
    /\ \E n \in 0..MaxBatch :
        LET r == [NoResult EXCEPT !.op = "batch_similarity_search", !.status = "return"]
        IN
        IF n = 0
        THEN result' = r
        ELSE \E store_ok \in BOOLEAN :
             IF ~store_ok
             THEN result' = [r EXCEPT !.store_ok = FALSE,
                                      !.batches = [q \in 1..n |-> <<>>]]
             ELSE \E query_texts \in [1..n -> Texts \ {0}], top_k \in TopKs,
                     document_type \in DocTypes :
                  result' = [r EXCEPT !.top_k = top_k, !.where = document_type,
                                      !.batches =
                                         [q \in 1..n |->
                                            BatchMatches(resumes, query_texts[q],
                                                         top_k, document_type)]]

\* TranslationService.translate_text
TranslateText ==
    /\ UNCHANGED <<storeVars, script_loads, genVars, batch>>
    /\ \E text \in Texts, source_language \in Langs \cup {"None"} :
       \E detect_ok \in IF source_language = "None" THEN BOOLEAN ELSE {TRUE},
          env \in IF source_language \in supported_languages \cup {"None"}
                  THEN Envs ELSE {"ok"} :
        LET lang == IF source_language = "None"
                    THEN detect_language(text, detect_ok)
                    ELSE source_language
            r == [NoResult EXCEPT !.op = "translate_text", !.text = text]
        IN
        IF text = 0
        THEN /\ result' = [r EXCEPT !.status = "ValueError"]
             /\ UNCHANGED <<loaded_models, loads>>
        ELSE IF lang = "LanguageDetectionError"
        THEN /\ result' = [r EXCEPT !.status = "LanguageDetectionError"]
             /\ UNCHANGED <<loaded_models, loads>>
        ELSE IF lang \notin supported_languages
        THEN /\ result' = [r EXCEPT !.lang = lang,
                                    !.status = PassThrough(text, lang).status,
                                    !.out_text = PassThrough(text, lang).out_text,
                                    !.out_lang = PassThrough(text, lang).out_lang]
             /\ UNCHANGED <<loaded_models, loads>>
        ELSE LET lm == load_model(loaded_models, lang, env)
                 calls == IF lm.attempted THEN 1 ELSE 0
             IN
             /\ lm.loaded => loads[lang] < MaxLoads
             /\ loaded_models' = lm.cache
             /\ loads' = IF lm.loaded THEN [loads EXCEPT ![lang] = @ + 1] ELSE loads
             /\ IF lm.status = "return" /\ env # "run_fails"
                THEN result' = [r EXCEPT !.lang = lang, !.status = "return",
                                        !.out_text = Translation(text),
                                        !.out_lang = lang,
                                        !.load_calls = calls, !.generate_calls = 1]
                ELSE result' = [r EXCEPT !.lang = lang, !.failed = TRUE,
                                        !.status = TranslationFailed(text, lang).status,
                                        !.out_text = TranslationFailed(text, lang).out_text,
                                        !.out_lang = TranslationFailed(text, lang).out_lang,
                                        !.load_calls = calls,
                                        !.generate_calls =
                                            IF lm.status = "return" THEN 1 ELSE 0]

\* TranslationService.load_model called on its own
LoadModel ==
    /\ UNCHANGED <<storeVars, script_loads, genVars, batch>>
    /\ \E language_code \in Langs :
       \E env \in IF language_code \in supported_languages THEN Envs ELSE {"ok"} :
        LET lm == load_model(loaded_models, language_code, env)
        IN
        /\ lm.loaded => loads[language_code] < MaxLoads
        /\ loaded_models' = lm.cache
        /\ loads' = IF lm.loaded THEN [loads EXCEPT ![language_code] = @ + 1] ELSE loads
        /\ result' = [NoResult EXCEPT !.op = "load_model", !.lang = language_code,
                                      !.status = lm.status,
                                      !.failed = (lm.status = "ModelLoadingError"),
                                      !.load_calls = IF lm.attempted THEN 1 ELSE 0]

\* What a call of the script's translate_text leaves in script_loads.
ScriptLoadsAfter(tr, lang_code) ==
    IF tr.loaded THEN [script_loads EXCEPT ![lang_code] = @ + 1] ELSE script_loads

\* translate_text of Scripts/translate_resumes.py
ScriptTranslateText ==
    /\ UNCHANGED <<storeVars, loaded_models, loads, genVars, batch>>
    /\ \E text \in Texts, lang_code \in Langs \cup {"unknown"} :
       \E env \in IF lang_code \in DOMAIN_LANG_TO_MODEL THEN Envs ELSE {"ok"} :
        LET tr == script_translate_text(text, lang_code, env)
        IN
        /\ tr.loaded => script_loads[lang_code] < MaxLoads
        /\ script_loads' = ScriptLoadsAfter(tr, lang_code)
        /\ result' = [NoResult EXCEPT !.op = "script_translate_text", !.text = text,
                                      !.lang = lang_code, !.status = "return",
                                      !.out_text = tr.out_text, !.out_lang = lang_code,
                                      !.failed = tr.failed,
                                      !.load_calls = IF tr.attempted THEN 1 ELSE 0,
                                      !.generate_calls = IF tr.generated THEN 1 ELSE 0]

\* translate_single_resume of Scripts/translate_resumes.py
TranslateSingleResume ==
    /\ UNCHANGED <<storeVars, loaded_models, loads, genVars, batch>>
    /\ \E text \in Texts, given \in Langs \cup {"None"} :
       \E detect_ok \in IF given = "None" THEN BOOLEAN ELSE {TRUE},
          env \in IF given \in DOMAIN_LANG_TO_MODEL \cup {"None"} THEN Envs ELSE {"ok"} :
        LET lang_code == IF given = "None"
                         THEN script_detect_language(text, detect_ok)
                         ELSE given
            r == [NoResult EXCEPT !.op = "translate_single_resume", !.text = text,
                                  !.lang = lang_code, !.status = "return",
                                  !.out_lang = lang_code]
        IN
        IF lang_code \notin DOMAIN_LANG_TO_MODEL
        THEN /\ result' = [r EXCEPT !.out_text = text]
             /\ UNCHANGED script_loads
        ELSE LET tr == script_translate_text(text, lang_code, env)
             IN
             /\ tr.loaded => script_loads[lang_code] < MaxLoads
             /\ script_loads' = ScriptLoadsAfter(tr, lang_code)
             /\ result' = [r EXCEPT !.out_text = tr.out_text, !.failed = tr.failed,
                                    !.load_calls = IF tr.attempted THEN 1 ELSE 0,
                                    !.generate_calls = IF tr.generated THEN 1 ELSE 0]

\* add_resume_to_store of Scripts/vector_store.py
AddResumeToStore ==
    /\ UNCHANGED <<resumes, translationVars, genVars, batch>>
    /\ \E store_ok \in BOOLEAN :
        LET r == [NoResult EXCEPT !.op = "add_resume_to_store", !.store_ok = store_ok]
        IN
        IF ~store_ok
        THEN /\ UNCHANGED resume_collection
             /\ result' = [r EXCEPT !.status = "False"]
        ELSE \E resume_id \in Ids, resume_text \in LongTexts, type \in MetaTypes :
             /\ resume_collection' =
                    CollectionAdd(resume_collection, resume_id, resume_text, type)
             /\ result' = [r EXCEPT !.status = "True", !.id = resume_id,
                                    !.text = resume_text,
                                    !.existed = (resume_id \in DOMAIN resume_collection),
                                    !.count_before = CollectionCount(resume_collection)]

\* One iteration of the loop of main in Scripts/vector_store.py: the file
\* filename holds resume_text, or cannot be read (text 0 stands for both
\* None and the empty text).
VectorStoreMainFile ==
    /\ UNCHANGED <<resumes, translationVars, genVars, batch>>
    /\ \E filename \in Ids, resume_text \in Texts :
        LET r == [NoResult EXCEPT !.op = "vector_store_main", !.id = filename,
                                  !.text = resume_text,
                                  !.existed = (filename \in DOMAIN resume_collection),
                                  !.count_before = CollectionCount(resume_collection)]
        IN
        IF resume_text = 0
        THEN /\ UNCHANGED resume_collection
             /\ result' = [r EXCEPT !.status = "error"]
        ELSE \E store_ok \in BOOLEAN :
             IF store_ok
             THEN /\ resume_collection' =
                         CollectionAdd(resume_collection, filename, resume_text, "absent")
                  /\ result' = [r EXCEPT !.status = "added"]
             ELSE /\ UNCHANGED resume_collection
                  /\ result' = [r EXCEPT !.status = "error", !.store_ok = FALSE]

\* The file of an upload: no filename, an extension that is not accepted, or
\* an accepted one.
FileKinds == {"no_filename", "unsupported", "pdf", "txt"}

\* What can go wrong in an upload besides translation: reading the file,
\* the language detector, the store.
Faults == {"none", "read", "detect", "store"}

\* upload_resume of app.py.  Every exception raised in the handler, the
\* HTTPException(400) of the two checks included, is caught by the handler's
\* except clause and raised again as HTTPException(500).  The stages run one
\* after the other: detect_language, translate_text for fr, es and de,
\* parse_resume (whose records the handler drops) and collection.add.
UploadResume ==
    /\ UNCHANGED <<resumes, loaded_models, loads, genVars, batch>>
    /\ \E file \in FileKinds :
        LET r == [NoResult EXCEPT !.op = "upload_resume",
                                  !.count_before = CollectionCount(resume_collection)]
        IN
        IF file \in {"no_filename", "unsupported"}
        THEN /\ result' = [r EXCEPT !.status = file, !.http = 500]
             /\ UNCHANGED <<resume_collection, script_loads>>
        ELSE \E fault \in Faults :
             IF fault = "read"
             THEN /\ result' = [r EXCEPT !.status = "read_error", !.http = 500]
                  /\ UNCHANGED <<resume_collection, script_loads>>
             ELSE \E filename \in Ids, text_content \in Texts \ {0} :
                  LET lang == script_detect_language(text_content, fault # "detect")
                      translates == lang \in {"fr", "es", "de"}
                  IN
                  \E env \in IF translates THEN Envs ELSE {"ok"} :
                  LET tr == script_translate_text(text_content, lang, env)
                      final_content == IF translates THEN tr.out_text ELSE text_content
                      stages == <<"detect">>
                                \o (IF translates THEN <<"translate">> ELSE <<>>)
                                \o <<"extract", "store">>
                      failed_stage == IF lang = "unknown" THEN "detect"
                                      ELSE IF translates /\ tr.failed THEN "translate"
                                      ELSE IF fault = "store" THEN "store"
                                      ELSE "none"
                      r3 == [r EXCEPT !.id = filename, !.text = text_content,
                                      !.stages = stages, !.failed_stage = failed_stage,
                                      !.store_ok = (fault # "store"),
                                      !.existed = (filename \in DOMAIN resume_collection),
                                      !.count_before = CollectionCount(resume_collection),
                                      !.lang = lang, !.out_text = final_content,
                                      !.failed = (translates /\ tr.failed)]
                  IN
                  /\ (translates /\ tr.loaded) => script_loads[lang] < MaxLoads
                  /\ script_loads' = IF translates
                                     THEN ScriptLoadsAfter(tr, lang)
                                     ELSE script_loads
                  /\ IF fault = "store"
                     THEN /\ UNCHANGED resume_collection
                          /\ result' = [r3 EXCEPT !.status = "store_error", !.http = 500]
                     ELSE /\ resume_collection' =
                                 CollectionAdd(resume_collection, filename,
                                               final_content, "absent")
                          /\ result' = [r3 EXCEPT !.status = "success", !.http = 200]

\* match_candidates of app.py, up to the candidate list it builds from the
\* query result.
MatchCandidates ==
    /\ UNCHANGED <<storeVars, translationVars, genVars, batch>>
    /\ \E store_ok \in BOOLEAN :
        LET r == [NoResult EXCEPT !.op = "match_candidates",
                                  !.top_k = match_n_results, !.store_ok = store_ok]
        IN
        IF ~store_ok
        THEN result' = [r EXCEPT !.status = "error", !.http = 500]
        ELSE \E job_text \in Texts :
             result' = [r EXCEPT !.status = "success", !.http = 200, !.query = job_text,
                                 !.matches = Candidates(resume_collection, job_text,
                                                        match_n_results)]

\* get_top_matches of Scripts/semantic_matching.py
GetTopMatches ==
    /\ UNCHANGED <<storeVars, translationVars, genVars, batch>>
    /\ \E store_ok \in BOOLEAN :
        LET r == [NoResult EXCEPT !.op = "get_top_matches", !.top_k = TOP_K,
                                  !.store_ok = store_ok]
        IN
        IF ~store_ok
        THEN result' = [r EXCEPT !.status = "None"]
        ELSE \E job_text \in Texts \ {0} :
             result' = [r EXCEPT !.status = "return", !.query = job_text,
                                 !.matches = Candidates(resume_collection, job_text, TOP_K)]

\* ResumeParser.parse_resume.  Whatever is raised after the two input
\* checks, by the detector, by spaCy or by an extractor, is raised again as
\* ResumeProcessingError.
ParseResume ==
    /\ UNCHANGED <<storeVars, script_loads, genVars, batch>>
    /\ \E text \in ParserTexts :
        LET r == [NoResult EXCEPT !.op = "parse_resume", !.text = text]
        IN
        IF text = 0
        THEN /\ result' = [r EXCEPT !.status = "ValueError"]
             /\ UNCHANGED <<loaded_models, loads>>
        ELSE IF StrippedLen(text) < min_text_length
        THEN /\ result' = [r EXCEPT !.status = "ResumeProcessingError"]
             /\ UNCHANGED <<loaded_models, loads>>
        ELSE \E detect_ok \in BOOLEAN :
             LET language == detect_language(text, detect_ok)
             IN
             IF language = "LanguageDetectionError"
             THEN /\ result' = [r EXCEPT !.status = "ResumeProcessingError",
                                         !.lang = "unknown", !.failed = TRUE,
                                         !.stages = <<"detect">>,
                                         !.failed_stage = "detect"]
                  /\ UNCHANGED <<loaded_models, loads>>
             ELSE \E env \in IF language \in supported_languages THEN Envs ELSE {"ok"},
                     nlp \in {"ok", "throws"} :
                  LET translates == language # "en" /\ language \in supported_languages
                      lm == load_model(loaded_models, language, env)
                      translated == lm.status = "return" /\ env # "run_fails"
                      translated_text == IF translates /\ translated
                                         THEN Translation(text)
                                         ELSE text
                      original_language == IF translates THEN language ELSE "en"
                      parsed_data == ParsedData(translated_text, original_language)
                      r2 == [r EXCEPT !.lang = language, !.out_text = translated_text,
                                      !.failed = (translates /\ ~translated),
                                      !.nlp = nlp,
                                      !.stages = <<"detect">>
                                          \o (IF translates THEN <<"translate">>
                                                            ELSE <<>>)
                                          \o <<"extract">>,
                                      !.failed_stage =
                                          IF nlp = "throws" THEN "extract"
                                          ELSE IF translates /\ ~translated
                                          THEN "translate"
                                          ELSE "none",
                                      !.load_calls =
                                          IF translates /\ lm.attempted THEN 1 ELSE 0]
                  IN
                  /\ (translates /\ lm.loaded) => loads[language] < MaxLoads
                  /\ loaded_models' = IF translates THEN lm.cache ELSE loaded_models
                  /\ loads' = IF translates /\ lm.loaded
                              THEN [loads EXCEPT ![language] = @ + 1]
                              ELSE loads
                  /\ IF nlp = "throws"
                     THEN result' = [r2 EXCEPT !.status = "ResumeProcessingError"]
                     ELSE result' =
                            [r2 EXCEPT !.status = "return",
                                       !.parsed =
                                           [parsed_data EXCEPT
                                               !.extraction_confidence =
                                                   _calculate_confidence(parsed_data)]]

\* parse_resume of Scripts/parse_resumes.py
ScriptParseResume ==
    /\ UNCHANGED <<storeVars, translationVars, genVars, batch>>
    /\ \E text \in ParserTexts, nlp \in NlpStates :
        result' = [NoResult EXCEPT !.op = "script_parse_resume", !.text = text,
                                   !.status = "return", !.nlp = nlp,
                                   !.parsed = script_parse_resume(text, nlp)]

\* A call of generate_interview_questions outside the web API, with or
\* without a generator passed in.
GenerateInterviewQuestions ==
    /\ UNCHANGED <<storeVars, translationVars, request, batch>>
    /\ \E job_title \in Titles, resume_snippet \in Texts, generator \in {"None", "pipeline"} :
       \E env \in IF generator = "None" /\ _generator = "None" THEN GenEnvs ELSE {"ok"},
          run \in IF job_title = 0 \/ resume_snippet = 0 THEN {"ok"} ELSE RunOutcomes :
        LET g == generate_interview_questions(job_title, resume_snippet, generator,
                                              _generator, env, run)
            has_generator == g.status = "return" /\ g.value.kind # "load_error"
        IN
        /\ _generator' = g.global
        /\ generator_loads' = IF g.loaded THEN generator_loads + 1 ELSE generator_loads
        /\ result' = [NoResult EXCEPT !.op = "generate_interview_questions",
                                      !.status = g.status, !.value = g.value,
                                      !.query = job_title, !.text = resume_snippet,
                                      !.failed = (~has_generator \/ run # "ok"),
                                      !.load_calls = IF g.loaded THEN 1 ELSE 0]

\* The candidates_data of match_candidates: the rows of the query result
\* with the contact data found in each snippet.
CandidatesData(coll, q, n_results) ==
    LET rows == Candidates(coll, q, n_results)
    IN [i \in 1..Len(rows) |->
          [resume_snippet |-> rows[i].text,
           score |-> rows[i].score,
           contact_info |-> [email |-> Scalar(Features(rows[i].text).email),
                             phone |-> Scalar(Features(rows[i].text).phone)]]]

\* match_candidates up to asyncio.gather: the query, the candidate list and
\* one generate_questions_for_candidate task per candidate, each running
\* generate_interview_questions in a thread of its own.  The job has a
\* title, so its text is not empty.
MatchCandidatesStart ==
    /\ UNCHANGED <<storeVars, translationVars, _generator, generator_loads, batch>>
    /\ request.phase = "idle"
    /\ \E store_ok \in BOOLEAN :
        LET r == [NoResult EXCEPT !.op = "match_candidates",
                                  !.top_k = match_n_results, !.store_ok = store_ok]
        IN
        IF ~store_ok
        THEN /\ result' = [r EXCEPT !.status = "error", !.http = 500]
             /\ UNCHANGED request
        ELSE \E job_text \in LongTexts :
             LET candidates_data ==
                     CandidatesData(resume_collection, job_text, match_n_results)
             IN
             /\ request' = [phase |-> "gather", query |-> job_text,
                            candidates_data |-> candidates_data,
                            pc |-> [i \in 1..Len(candidates_data) |-> "check"],
                            questions_results |->
                                [i \in 1..Len(candidates_data) |-> Message("pending")]]
             /\ result' = [r EXCEPT !.status = "pending", !.query = job_text]

ReturnedToAll(i, v) ==
    [request EXCEPT !.pc[i] = "done",
                    !.questions_results =
                        [j \in 1..Len(@) |-> IF @[j].kind = "pending" THEN v ELSE @[j]]]

\* The thread of task i returns v: the task takes it as its result unless
\* its wait_for has timed out already.
Returned(i, v) ==
    [request EXCEPT !.pc[i] = "done",
                    !.questions_results[i] =
                        IF @.kind = "pending" THEN v ELSE @]

\* Thread i reads the global: generator = _generator or load_generator(),
\* with the test of load_generator on the global.
GenCheck(i) ==
    /\ request.pc[i] = "check"
    /\ request' = [request EXCEPT !.pc[i] =
                       IF _generator # "None" THEN "generate" ELSE "load"]
    /\ UNCHANGED <<storeVars, translationVars, _generator, generator_loads, result, batch>>

\* Thread i, having found no generator, runs the rest of load_generator and
\* assigns the global.  What load_generator raises is caught by the task and
\* becomes its error string.
GenLoad(i) ==
    /\ request.pc[i] = "load"
    /\ \E env \in GenEnvs :
        LET lg == load_generator("None", env)
        IN
        IF lg.status = "raise"
        THEN /\ request' = Returned(i, Message("task_error"))
             /\ UNCHANGED <<_generator, generator_loads>>
        ELSE IF lg.generator = "None"
        THEN /\ request' = Returned(i, Message("load_error"))
             /\ UNCHANGED <<_generator, generator_loads>>
        ELSE /\ request' = [request EXCEPT !.pc[i] = "generate"]
             /\ _generator' = lg.generator
             /\ generator_loads' = generator_loads + 1
    /\ UNCHANGED <<storeVars, translationVars, result, batch>>

\* Thread i runs the try block of generate_interview_questions; the title of
\* the request is not empty.
GenGenerate(i) ==
    /\ request.pc[i] = "generate"
    /\ \E run \in RunOutcomes :
        request' = Returned(i, generate_with(1, request.candidates_data[i].resume_snippet,
                                             run))
    /\ UNCHANGED <<storeVars, translationVars, _generator, generator_loads, result, batch>>

GenNoTimeout(i) ==
    /\ FALSE
    /\ UNCHANGED vars

\* The wait_for of task i times out after 30 seconds: the task returns the
\* placeholder, the thread goes on.
GenTimeout(i) ==
    /\ request.phase = "gather"
    /\ request.pc[i] # "done"
    /\ request.questions_results[i].kind = "pending"
    /\ request' = [request EXCEPT !.questions_results[i] = Message("timed_out")]
    /\ UNCHANGED <<storeVars, translationVars, _generator, generator_loads, result, batch>>

QuestionsForReversed(i) ==
    request.questions_results[Len(request.questions_results) + 1 - i]

\* questions_results[i]: gather returns the results in the order of the tasks.
QuestionsFor(i) == request.questions_results[i]

\* asyncio.gather returns when every task has returned; the handler then
\* combines candidates_data[i] with questions_results[i].
MatchCandidatesRespond ==
    /\ request.phase = "gather"
    /\ \A i \in 1..Len(request.questions_results) :
          request.questions_results[i].kind # "pending"
    /\ result' = [NoResult EXCEPT
                    !.op = "match_candidates", !.status = "success", !.http = 200,
                    !.top_k = match_n_results, !.query = request.query,
                    !.matches =
                        [i \in 1..Len(request.candidates_data) |->
                            [resume_snippet |-> request.candidates_data[i].resume_snippet,
                             score |-> request.candidates_data[i].score,
                             interview_questions |-> QuestionsFor(i),
                             language |-> "English",
                             contact_info |-> request.candidates_data[i].contact_info]]]
    /\ request' = [request EXCEPT !.phase = "responded"]
    /\ UNCHANGED <<storeVars, translationVars, _generator, generator_loads, batch>>

\* The threads of an answered request have all returned.
RequestEnds ==
    /\ request.phase = "responded"
    /\ \A i \in 1..Len(request.pc) : request.pc[i] = "done"
    /\ request' = NoRequest
    /\ UNCHANGED <<storeVars, translationVars, _generator, generator_loads, result, batch>>

\* process_directory of Scripts/parse_resumes.py, main of
\* Scripts/vector_store.py, process_resumes of Scripts/translate_resumes.py
\* and main of Scripts/semantic_matching.py up to their loops.
BatchStart ==
    /\ batch.phase # "running"
    /\ \E loop \in {"process_directory", "vector_store_main", "process_resumes",
                    "semantic_matching_main"},
          n \in 0..MaxId, setup_ok \in BOOLEAN :
        batch' = StartBatch(loop, n, setup_ok)
    /\ UNCHANGED <<storeVars, translationVars, genVars, result>>

\* main of Scripts/interview_question_generator.py up to its loop: it loads
\* the generator and returns when there is none.
InterviewMainStart ==
    /\ batch.phase # "running"
    /\ \E n \in 0..MaxId, env \in IF _generator = "None" THEN GenEnvs ELSE {"ok"} :
        LET lg == load_generator(_generator, env)
        IN
        /\ _generator' = lg.generator
        /\ generator_loads' = IF lg.loaded THEN generator_loads + 1 ELSE generator_loads
        /\ batch' = StartBatch("interview_main", n,
                               lg.status = "return" /\ lg.generator # "None")
    /\ UNCHANGED <<storeVars, translationVars, request, result>>

\* One file of process_directory: the whole body is in one try block.
ProcessDirectoryFile ==
    /\ Running("process_directory")
    /\ \E file \in {"other", "read_fails", "write_fails", "parsed"} :
        batch' = IF file = "other" THEN PassedOver
                 ELSE IF file = "parsed" THEN Counted("processed")
                 ELSE Counted("errors")
    /\ UNCHANGED <<storeVars, translationVars, genVars, result>>

\* One file of process_resumes: glob lists *.txt files only.
ProcessResumesFile ==
    /\ Running("process_resumes")
    /\ \E file \in {"read_fails", "write_fails", "written"} :
        IF file = "read_fails"
        THEN /\ batch' = Counted("errors")
             /\ UNCHANGED script_loads
        ELSE \E text \in Texts, detect_ok \in BOOLEAN :
             LET lang == script_detect_language(text, detect_ok)
             IN
             IF lang \notin DOMAIN_LANG_TO_MODEL
             THEN /\ batch' = Counted("skipped")
                  /\ UNCHANGED script_loads
             ELSE \E env \in Envs :
                  LET tr == script_translate_text(text, lang, env)
                  IN
                  /\ tr.loaded => script_loads[lang] < MaxLoads
                  /\ script_loads' = ScriptLoadsAfter(tr, lang)
                  /\ batch' = IF file = "written"
                              THEN Counted("processed")
                              ELSE Counted("errors")
    /\ UNCHANGED <<storeVars, loaded_models, loads, genVars, result>>

\* One file of the loop of main in Scripts/vector_store.py; the file names
\* of a directory are distinct.
VectorStoreMainCounted ==
    /\ Running("vector_store_main")
    /\ \E file \in {"other", "json"} :
        IF file = "other"
        THEN /\ batch' = PassedOver
             /\ UNCHANGED resume_collection
        ELSE \E resume_text \in Texts :
             IF resume_text = 0
             THEN /\ batch' = Counted("errors")
                  /\ UNCHANGED resume_collection
             ELSE \E store_ok \in BOOLEAN :
                  IF store_ok
                  THEN /\ resume_collection' =
                              CollectionAdd(resume_collection, batch.todo,
                                            resume_text, "absent")
                       /\ batch' = Counted("processed")
                  ELSE /\ UNCHANGED resume_collection
                       /\ batch' = Counted("errors")
    /\ UNCHANGED <<resumes, translationVars, genVars, result>>

\* One file of the loop of main in Scripts/semantic_matching.py.  Only the
\* load of the file has a try block of its own: what the code after
\* get_top_matches raises (printing the rows, opening or writing the result
\* file) is caught by the try block around the whole of main.
SemanticMatchingMainFile ==
    /\ Running("semantic_matching_main")
    /\ \E file \in {"other", "load_fails", "no_text", "no_results", "save_fails",
                    "saved"} :
        batch' = IF file = "other" THEN PassedOver
                 ELSE IF file = "saved" THEN Counted("processed")
                 ELSE IF file = "save_fails" THEN LoopLeft
                 ELSE Counted("errors")
    /\ UNCHANGED <<storeVars, translationVars, genVars, result>>

\* One file of the loop of main in Scripts/interview_question_generator.py.
\* A file whose matches have no snippet gives no output and is counted
\* nowhere; a match that is not an object raises outside every try block.
InterviewMainFile ==
    /\ Running("interview_main")
    /\ \E file \in {"other", "read_fails", "bad_match", "no_snippet", "save_fails",
                    "saved"} :
        batch' = IF file = "other" THEN PassedOver
                 ELSE IF file = "saved" THEN Counted("processed")
                 ELSE IF file = "bad_match" THEN LoopLeft
                 ELSE IF file = "no_snippet" THEN NotCounted
                 ELSE Counted("errors")
    /\ UNCHANGED <<storeVars, translationVars, genVars, result>>

\* The loop has gone through the directory listing: the summary is printed.
BatchEnd ==
    /\ batch.phase = "running"
    /\ batch.todo = 0
    /\ batch' = [batch EXCEPT !.phase = "finished"]
    /\ UNCHANGED <<storeVars, translationVars, genVars, result>>

\* The job descriptions build_job_description_text is given.
JobDescriptions ==
    [title : TitleValues, description : DescriptionValues,
     requirements : RequirementsValues, skills : SkillsValues]

\* A job description has been read.
JobTextInit ==
    /\ resumes = <<>>
    /\ resume_collection = <<>>
    /\ loaded_models = {}
    /\ loads = [l \in supported_languages |-> 0]
    /\ script_loads = [l \in DOMAIN_LANG_TO_MODEL |-> 0]
    /\ _generator = "None"
    /\ generator_loads = 0
    /\ request = NoRequest
    /\ batch = NoBatch
    /\ \E data \in JobDescriptions :
          result = [NoResult EXCEPT !.op = "job_description", !.data = data]

\* The call of build_job_description_text on the job description read.
BuildJobDescriptionText ==
    /\ result.op = "job_description"
    /\ result' = [result EXCEPT !.op = "build_job_description_text",
                                !.status = "return",
                                !.out_text = build_job_description_text(result.data)]
    /\ UNCHANGED <<storeVars, translationVars, genVars, batch>>

\* ResumeParser.parse_resume has extracted the parts of a record.
ConfidenceInit ==
    /\ resumes = <<>>
    /\ resume_collection = <<>>
    /\ loaded_models = {}
    /\ loads = [l \in supported_languages |-> 0]
    /\ script_loads = [l \in DOMAIN_LANG_TO_MODEL |-> 0]
    /\ _generator = "None"
    /\ generator_loads = 0
    /\ request = NoRequest
    /\ batch = NoBatch
    /\ \E parsed_data \in ParsedRecords :
          result = [NoResult EXCEPT
                      !.op = "parsed_data",
                      !.parsed = [parsed_data EXCEPT
                                     !.skills = Len(parsed_data.skill_confidences)]]

\* The call of _calculate_confidence that ends parse_resume, and
\* validate_parsed_data on the record returned.
CalculateConfidence ==
    /\ result.op = "parsed_data"
    /\ LET parsed_data == [result.parsed EXCEPT
                              !.extraction_confidence =
                                  _calculate_confidence(result.parsed)]
       IN result' = [result EXCEPT !.op = "calculate_confidence",
                                   !.parsed = parsed_data,
                                   !.status = validate_parsed_data(parsed_data)]
    /\ UNCHANGED <<storeVars, translationVars, genVars, batch>>

\* A resume text has been read, as its lines.
SectionInit ==
    /\ resumes = <<>>
    /\ resume_collection = <<>>
    /\ loaded_models = {}
    /\ loads = [l \in supported_languages |-> 0]
    /\ script_loads = [l \in DOMAIN_LANG_TO_MODEL |-> 0]
    /\ _generator = "None"
    /\ generator_loads = 0
    /\ request = NoRequest
    /\ batch = NoBatch
    /\ \E lines \in ResumeLines :
          result = [NoResult EXCEPT !.op = "resume_lines", !.data = lines]

\* The calls of _extract_education and _extract_experience that
\* ResumeParser.parse_resume makes on the text.
ExtractSections ==
    /\ result.op = "resume_lines"
    /\ result' = [result EXCEPT
                    !.op = "extract_sections", !.status = "return",
                    !.parsed = [education |-> _extract_education(result.data),
                                experience |-> _extract_experience(result.data)]]
    /\ UNCHANGED <<storeVars, translationVars, genVars, batch>>

ScriptNext ==
    \/ AddResumeToStore
    \/ VectorStoreMainFile
    \/ UploadResume
    \/ MatchCandidates
    \/ GetTopMatches

TranslationNext ==
    \/ TranslateText
    \/ LoadModel
    \/ ScriptTranslateText
    \/ TranslateSingleResume

\* The parsers, with the loads of the translation service that
\* ResumeParser.parse_resume shares.
ParserNext ==
    \/ ParseResume
    \/ ScriptParseResume
    \/ LoadModel

SvcNext ==
    \/ AddResumeEmbedding
    \/ AddJobEmbedding
    \/ FindMatchingResumes
    \/ FindMatchingJobs
    \/ BatchSimilaritySearch

\* One /api/match-candidates request at a time, with the collection filled
\* between requests: the candidate list of a request is fixed by its query,
\* which comes before the generation calls.
GenNext ==
    \/ request.phase = "idle" /\ VectorStoreMainFile
    \/ request.phase = "idle" /\ GenerateInterviewQuestions
    \/ MatchCandidatesStart
    \/ \E i \in 1..Len(request.pc) : GenCheck(i)
    \/ \E i \in 1..Len(request.pc) : GenLoad(i)
    \/ \E i \in 1..Len(request.pc) : GenGenerate(i)
    \/ \E i \in 1..Len(request.pc) : GenTimeout(i)
    \/ MatchCandidatesRespond
    \/ RequestEnds

\* The requests alone, without the calls of the generator from elsewhere,
\* over a collection of full resumes.
GenLiveNext ==
    \/ request.phase = "idle" /\ VectorStoreMainFile /\ result'.text \in LongTexts
    \/ MatchCandidatesStart
    \/ \E i \in 1..Len(request.pc) : GenCheck(i)
    \/ \E i \in 1..Len(request.pc) : GenLoad(i)
    \/ \E i \in 1..Len(request.pc) : GenGenerate(i)
    \/ \E i \in 1..Len(request.pc) : GenTimeout(i)
    \/ MatchCandidatesRespond
    \/ RequestEnds

BatchNext ==
    \/ BatchStart
    \/ InterviewMainStart
    \/ ProcessDirectoryFile
    \/ ProcessResumesFile
    \/ VectorStoreMainCounted
    \/ SemanticMatchingMainFile
    \/ InterviewMainFile
    \/ BatchEnd

Next ==
    \/ SvcNext
    \/ ScriptNext
    \/ TranslationNext
    \/ GenNext
    \/ BatchNext
    \/ ParserNext
    \/ BuildJobDescriptionText
    \/ ExtractSections
    \/ CalculateConfidence

Spec == Init /\ [][Next]_vars

\* The service's collection on its own, and the translation paths on their own.
SvcSpec == Init /\ [][SvcNext]_vars

TranslationSpec == Init /\ [][TranslationNext]_vars

\* The collection of Scripts/ and of the web API, with the translation the
\* upload runs.
ScriptSpec == Init /\ [][ScriptNext]_vars

\* The interview question generator and the generation calls of the web API.
GenSpec == Init /\ [][GenNext]_vars

\* The requests of the web API with the scheduling of the event loop: a
\* timer that is due fires, and the handler goes on once asyncio.gather has
\* every result.  The threads are under no such condition: a generation
\* call may never return.
GenLiveSpec ==
    /\ Init
    /\ [][GenLiveNext]_vars
    /\ WF_vars(\E i \in 1..Len(request.pc) : GenTimeout(i))
    /\ WF_vars(MatchCandidatesRespond)

\* The resume parsers.
ParserSpec == Init /\ [][ParserNext]_vars

\* The batch loops of Scripts/.
BatchSpec == Init /\ [][BatchNext]_vars

\* build_job_description_text on its own, over the job descriptions.
JobTextSpec == JobTextInit /\ [][BuildJobDescriptionText]_vars

\* The section scans of ResumeParser on their own, over the texts of up to
\* MaxLines lines.
SectionSpec == SectionInit /\ [][ExtractSections]_vars

\* _calculate_confidence and validate_parsed_data on their own, over the
\* records of ParsedRecords.
ConfidenceSpec == ConfidenceInit /\ [][CalculateConfidence]_vars

(* ------------------------------ properties ---------------------------- *)

AddOps == {"add_resume_embedding", "add_job_embedding"}

FindOps == {"find_matching_resumes", "find_matching_jobs"}

IdsOf(matches) == {matches[i].id : i \in 1..Len(matches)}

\* C1: adding a document under an id that is already in the collection
\* replaces the stored text, leaves count() unchanged, and every later query
\* returns the latest text for that id.
C1_IdempotentUpsert ==
    (result.op \in AddOps /\ result.status = "True" /\ result.existed) =>
        /\ resumes[result.id].text = result.text
        /\ CollectionCount(resumes) = result.count_before
        /\ \A q \in Texts \ {0}, type \in DocTypes :
             \A m \in {BatchMatches(resumes, q, MaxId, type)[i] :
                          i \in 1..Len(BatchMatches(resumes, q, MaxId, type))} :
                 m.id = result.id => m.text = result.text

ScoresOf(matches) == {matches[i].similarity_score : i \in 1..Len(matches)}

\* C2: every similarity_score reported by find_matching_resumes,
\* find_matching_jobs and batch_similarity_search lies in [0, 1].
C2_SimilarityBound ==
    /\ \A x \in ScoresOf(result.matches) : 0 <= x /\ x <= One
    /\ \A b \in 1..Len(result.batches) :
          \A x \in ScoresOf(result.batches[b]) : 0 <= x /\ x <= One

ResumeCount(coll) == Cardinality({i \in DOMAIN coll : coll[i].type = "resume"})

\* C3: with min_score = 0 and k >= 1, find_matching_resumes returns exactly
\* min(k, number of stored resume documents) results.
C3_TopKExact ==
    (/\ result.op = "find_matching_resumes"
     /\ result.status = "return"
     /\ result.store_ok
     /\ result.min_score = 0
     /\ result.top_k >= 1) =>
        Len(result.matches) = Min(result.top_k, ResumeCount(resumes))

\* C4: for the store, query and top_k of a find_matching_* call, a higher
\* min_score returns a subset of the ids a lower min_score returns.
C4_ThresholdMonotone ==
    (result.op \in FindOps /\ result.status = "return") =>
        \A ms \in MinScores :
            LET other == IdsOf(FindMatchingResult(resumes, result.query, result.top_k,
                                                  ms, result.where, result.store_ok))
            IN /\ ms > result.min_score => other \subseteq IdsOf(result.matches)
               /\ ms < result.min_score => IdsOf(result.matches) \subseteq other

\* A call whose result a higher threshold strictly shrinks.
C4_Witness ==
    /\ result.op = "find_matching_resumes"
    /\ result.status = "return"
    /\ Len(result.matches) = MaxK
    /\ \E ms \in MinScores :
          /\ ms > result.min_score
          /\ IdsOf(FindMatchingResult(resumes, result.query, result.top_k, ms,
                                      result.where, result.store_ok)) # {}
          /\ IdsOf(FindMatchingResult(resumes, result.query, result.top_k, ms,
                                      result.where, result.store_ok))
                # IdsOf(result.matches)

\* C5: find_matching_resumes returns only documents of type resume and
\* find_matching_jobs only documents of type job.
C5_TypeFilter ==
    (result.op \in FindOps) =>
        \A id \in IdsOf(result.matches) :
            /\ id \in DOMAIN resumes
            /\ resumes[id].type =
                   (IF result.op = "find_matching_resumes" THEN "resume" ELSE "job")

\* A resume search over a store that also holds a job document, with room
\* left in top_k for it.
C5_Witness ==
    /\ result.op = "find_matching_resumes"
    /\ result.matches # <<>>
    /\ \E id \in DOMAIN resumes : resumes[id].type = "job"
    /\ Len(result.matches) < result.top_k

CandidateOps == {"match_candidates", "get_top_matches"}

\* C6: no query path returns a document of type job as a candidate resume:
\* the service's resume searches, /api/match-candidates and get_top_matches.
C6_NoCrossTypeLeak ==
    /\ (result.op \in CandidateOps \/ result.op = "find_matching_resumes") =>
          \A i \in 1..Len(result.matches) : result.matches[i].type # "job"
    /\ (result.op = "batch_similarity_search" /\ result.where = "resume") =>
          \A b \in 1..Len(result.batches) :
              \A i \in 1..Len(result.batches[b]) : result.batches[b][i].type # "job"

\* C7: every entry of either collection carries a type of resume or job.
C7_TypeAlwaysPresent ==
    /\ \A id \in DOMAIN resumes : resumes[id].type \in DocTypes
    /\ \A id \in DOMAIN resume_collection : resume_collection[id].type \in DocTypes

TranslateOps == {"translate_text", "translate_single_resume"}

C10_LoadedOnce ==
    /\ \A l \in supported_languages : loads[l] <= 1
    /\ \A l \in DOMAIN_LANG_TO_MODEL : script_loads[l] <= 1

\* C11: when language detection fails for a document, the ingestion path
\* reports an error and does not store the document: an upload whose
\* detection failed does not answer 200 and does not add its document, and
\* translate_single_resume does not return such a text as a result.
C11_DetectionFailureReported ==
    /\ (result.op = "upload_resume" /\ result.lang = "unknown") =>
          /\ result.http # 200
          /\ result.status # "success"
          /\ ~result.existed => result.id \notin DOMAIN resume_collection
    /\ (result.op = "translate_single_resume" /\ result.lang = "unknown") =>
          result.status # "return"

\* C12: extracting fields from the empty string returns a record, with every
\* scalar field null, every list field empty and extraction confidence 0.0;
\* nothing is raised.
C12_EmptyTextExtracts ==
    (result.op \in {"parse_resume", "script_parse_resume"} /\ result.text = 0) =>
        /\ result.status = "return"
        /\ "extraction_confidence" \in DOMAIN result.parsed
        /\ result.parsed.extraction_confidence = 0
        /\ result.parsed.name = "None"
        /\ result.parsed.email = "None"
        /\ result.parsed.phone = "None"
        /\ result.parsed.education = 0
        /\ result.parsed.experience = 0
        /\ result.parsed.skills = 0

\* C13: no document whose stripped text is shorter than min_text_length is
\* in a collection, and an ingestion call given such a text is rejected with
\* a validation error.
C13_NoShortDocumentStored ==
    /\ \A id \in DOMAIN resumes : StrippedLen(resumes[id].text) >= min_text_length
    /\ \A id \in DOMAIN resume_collection :
          StrippedLen(resume_collection[id].text) >= min_text_length
    /\ (/\ result.op \in AddOps \cup {"upload_resume", "vector_store_main",
                                      "add_resume_to_store"}
        /\ result.id # NoId
        /\ StrippedLen(result.text) < min_text_length) =>
            result.status \in {"DataValidationError", "ValueError"}

\* C14: when the embedding or the store fails during a matching or ingestion
\* call, what the caller gets is an error and not a value that a successful
\* call returns: not a list of matches, not True, not a query result.
C14_FailureSurfaced ==
    ~result.store_ok =>
        /\ result.op \in FindOps \cup {"batch_similarity_search"} =>
               result.status # "return"
        /\ result.op \in AddOps => result.status # "True"
        /\ result.op = "get_top_matches" => result.status # "return"

\* C15: generate_interview_questions never raises; when the model fails to
\* load, generation throws or generation yields no output, it returns a
\* string that describes the error.
C15_GeneratorNeverRaises ==
    result.op = "generate_interview_questions" =>
        /\ result.status = "return"
        /\ result.failed => result.value.kind \in ErrorKinds

\* An answer of /api/match-candidates, with its request still at hand.
Answered ==
    /\ request.phase = "responded"
    /\ result.op = "match_candidates"
    /\ result.status = "success"

\* C16: in the response of /api/match-candidates the i-th candidate carries
\* the snippet, score and contact data of the i-th retrieved result, and its
\* questions are those generated for that snippet, whatever the order in
\* which the generation calls ran and returned.
C16_FanOutOrder ==
    Answered =>
        LET rows == Candidates(resume_collection, result.query, match_n_results)
        IN /\ Len(result.matches) = Len(rows)
           /\ \A i \in 1..Len(rows) :
                 /\ result.matches[i].resume_snippet = rows[i].text
                 /\ result.matches[i].score = rows[i].score
                 /\ result.matches[i].contact_info =
                        [email |-> Scalar(Features(rows[i].text).email),
                         phone |-> Scalar(Features(rows[i].text).phone)]
                 /\ result.matches[i].interview_questions.kind = "questions" =>
                        result.matches[i].interview_questions.snippet = rows[i].text

\* A response with MaxId candidates of different snippets, each with its
\* generated questions.
C16_Witness ==
    /\ Answered
    /\ Len(result.matches) = MaxId
    /\ \A i \in 1..Len(result.matches) :
          result.matches[i].interview_questions.kind = "questions"
    /\ result.matches[1].resume_snippet # result.matches[MaxId].resume_snippet

\* The generation calls of the answered request that timed out or failed.
FailedCalls ==
    {i \in 1..Len(request.pc) :
        \/ request.questions_results[i].kind = "timed_out"
        \/ request.questions_results[i].kind \in ErrorKinds \cup {"task_error"}}

\* C17: if exactly one of the K generation calls times out or fails and the
\* others generate their questions, the response has K candidates, the one
\* at the failing call's index carries the placeholder or error message and
\* every other candidate carries the questions generated for its snippet.
C17_OneFailureIsolated ==
    (/\ Answered
     /\ Cardinality(FailedCalls) = 1
     /\ \A j \in (1..Len(request.pc)) \ FailedCalls :
           request.questions_results[j].kind = "questions") =>
        /\ Len(result.matches) = Len(request.pc)
        /\ \A i \in 1..Len(request.pc) :
              IF i \in FailedCalls
              THEN result.matches[i].interview_questions.kind
                       \in ErrorKinds \cup {"task_error", "timed_out"}
              ELSE result.matches[i].interview_questions =
                       Questions(request.candidates_data[i].resume_snippet)

\* A response to MaxId calls of which exactly the first timed out.
C17_Witness ==
    /\ Answered
    /\ Len(request.pc) = MaxId
    /\ FailedCalls = {1}
    /\ request.questions_results[1].kind = "timed_out"
    /\ \A j \in 2..MaxId : result.matches[j].interview_questions.kind = "questions"

\* C18: the generator model is loaded at most once, whatever the
\* interleaving of the concurrent generation calls.
C18_GeneratorLoadedOnce == generator_loads <= 1

\* C19: no batch loop is left before the end of its directory listing, and
\* when a loop ends every eligible file has been counted in exactly one of
\* its counters, so that the counters sum to the number of eligible files.
C19_BatchCounters ==
    /\ batch.phase # "aborted"
    /\ batch.phase = "finished" =>
          batch.processed + batch.skipped + batch.errors = batch.eligible

\* The section headers of a text, in the order in which they occur.
Headers(text) ==
    SelectSeq(text, LAMBDA p : p \in {"Job Title:", "Description:", "Requirements:",
                                      "Skills:"})

\* The number of places of a text that hold the piece p.
Count(text, p) == Cardinality({i \in 1..Len(text) : text[i] = p})

\* The blank lines of a text: the places where two line breaks meet.
BlankLines(text) ==
    Cardinality({i \in 1..Len(text) - 1 : text[i] = "\n" /\ text[i + 1] = "\n"})

NonEmpty(field, kind) == field.kind = kind /\ field.value # <<>>

\* C20: build_job_description_text returns the sections of the non-empty
\* fields in the order Title, Description, Requirements, Skills and no
\* other section, one "- " line per requirement, the skills joined by
\* commas, one blank line between two sections, and the empty string when
\* no field is non-empty.
C20_JobTextSections ==
    result.op = "build_job_description_text" =>
        LET data == result.data
            out == result.out_text
            expected ==
                (IF NonEmpty(data.title, "str") THEN <<"Job Title:">> ELSE <<>>)
             \o (IF NonEmpty(data.description, "str") THEN <<"Description:">> ELSE <<>>)
             \o (IF NonEmpty(data.requirements, "list")
                 THEN <<"Requirements:">> ELSE <<>>)
             \o (IF NonEmpty(data.skills, "list") THEN <<"Skills:">> ELSE <<>>)
        IN /\ Headers(out) = expected
           /\ expected = <<>> => out = <<>>
           /\ expected # <<>> => /\ out[1] = expected[1]
                                 /\ BlankLines(out) = Len(expected) - 1
           /\ Count(out, "-") =
                  (IF NonEmpty(data.requirements, "list")
                   THEN Len(data.requirements.value) ELSE 0)
           /\ Count(out, ",") =
                  (IF NonEmpty(data.skills, "list")
                   THEN Len(data.skills.value) - 1 ELSE 0)

\* A job description with all four sections, MaxItems requirements and
\* MaxItems skills.
C20_Witness ==
    /\ result.op = "build_job_description_text"
    /\ Len(Headers(result.out_text)) = 4
    /\ Len(result.data.requirements.value) = MaxItems
    /\ Len(result.data.skills.value) = MaxItems

\* The stages of the pipeline of one document, in their order.
PipelineStages == <<"detect", "translate", "extract", "store">>

\* The place of a stage in the pipeline.
StageIndex(stage) == CHOOSE i \in 1..Len(PipelineStages) : PipelineStages[i] = stage

IngestionOps == {"upload_resume", "parse_resume"}

\* C21: in every ingestion path of one document the stages run in the order
\* detect, translate, extract, store, each after the one before it, and when
\* a stage before the store write fails the store is left as it was for that
\* document.
C21_StagedIngestion ==
    result.op \in IngestionOps =>
        /\ \A i \in 1..Len(result.stages) - 1 :
              StageIndex(result.stages[i]) < StageIndex(result.stages[i + 1])
        /\ (/\ result.failed_stage \in {"detect", "translate", "extract"}
            /\ ~result.existed) =>
               result.id \notin DOMAIN resume_collection

\* C22: for every resume that ResumeParser.parse_resume parses, the recorded
\* original_language is the language code the detection returned for the
\* text, also when that language is neither English nor a language the
\* translation service supports.
C22_OriginalLanguage ==
    (result.op = "parse_resume" /\ result.status = "return") =>
        result.parsed.original_language = result.lang

\* C23: when named-entity recognition is unavailable or throws, extraction
\* still returns a record: the name is absent and every other field has the
\* value it has when recognition is available.
C23_RegexOnlyDegrades ==
    /\ (result.op = "script_parse_resume" /\ result.nlp # "ok") =>
          /\ result.status = "return"
          /\ result.parsed =
                 [script_parse_resume(result.text, "ok") EXCEPT !.name = "None"]
    /\ (result.op = "parse_resume" /\ result.nlp # "ok") =>
          /\ result.status = "return"
          /\ result.parsed.name = "None"

\* C24: every path that reports a match score reports the similarity
\* 1 - distance, so that a higher score is a closer match: the results of
\* SemanticMatchingService, the candidates of /api/match-candidates and the
\* rows of the batch match-result files.
C24_ScoreIsSimilarity ==
    /\ result.op \in CandidateOps =>
          \A i \in 1..Len(result.matches) :
              /\ result.matches[i].score =
                     Similarity(Distance(result.query, result.matches[i].text))
              /\ \A j \in 1..Len(result.matches) :
                     Distance(result.query, result.matches[i].text)
                         < Distance(result.query, result.matches[j].text)
                     => result.matches[i].score > result.matches[j].score
    /\ result.op \in FindOps =>
          \A i \in 1..Len(result.matches) :
              result.matches[i].similarity_score =
                  Round4(Similarity(Distance(result.query, result.matches[i].text)))

\* Line i lies inside the education section: after the section's header
\* and with no header of a later section in between.
InsideEducation(lines, i) ==
    \E h \in 1..(i - 1) :
        /\ Contains(lines[h], "education")
        /\ \A k \in (h + 1)..i : ~AnyIn(lines[k], education_terminators)

\* The non-blank lines that follow line i up to the next degree line or the
\* next section.
EntryLines(lines, i) ==
    LET ends == {k \in (i + 1)..Len(lines) :
                    AnyIn(lines[k], degree_patterns \cup education_terminators)}
        last == IF ends = {} THEN Len(lines)
                ELSE (CHOOSE k \in ends : \A m \in ends : k <= m) - 1
    IN SelectSeq(SubSeq(lines, i + 1, last), LAMBDA l : l # <<>>)

\* C25: a line with a degree keyword inside the education section starts an
\* education entry whose degree is that line, and the non-blank lines that
\* follow fill the institution and then the year.
C25_DegreeLineStartsEntry ==
    result.op = "extract_sections" =>
        \A i \in 1..Len(result.data) :
            (/\ InsideEducation(result.data, i)
             /\ AnyIn(result.data[i], degree_patterns)) =>
                \E k \in 1..Len(result.parsed.education) :
                    LET entry == result.parsed.education[k]
                        next == EntryLines(result.data, i)
                    IN /\ entry.degree = result.data[i]
                       /\ Len(next) >= 1 => entry.institution = next[1]
                       /\ (Len(next) >= 2 /\ YearOf(next[2]) # "") =>
                              entry.year = YearOf(next[2])

\* The lines of a text before the first header that ends the scan of a
\* section the scan has entered.
BeforeTerminator(lines, patterns, terminators) ==
    LET ends == {t \in 1..Len(lines) :
                    /\ AnyIn(lines[t], terminators)
                    /\ \E h \in 1..(t - 1) : AnyIn(lines[h], patterns)}
    IN IF ends = {} THEN lines
       ELSE SubSeq(lines, 1, (CHOOSE t \in ends : \A m \in ends : t <= m) - 1)

\* C26: in the education and experience scans, the header line that ends
\* the section and the lines after it contribute to no field of an entry:
\* the entries are those of the lines before that header.
C26_ScanStopsAtHeader ==
    result.op = "extract_sections" =>
        /\ result.parsed.education =
               _extract_education(BeforeTerminator(result.data, education_patterns,
                                                   education_terminators))
        /\ result.parsed.experience =
               _extract_experience(BeforeTerminator(result.data, experience_patterns,
                                                    experience_terminators))

\* C27: the list find_matching_resumes or find_matching_jobs returns is in
\* non-increasing similarity order and its rank fields are 1, 2, ..., n in
\* list order, without gaps or repeats.
C27_RankOrder ==
    result.op \in FindOps =>
        \A i \in 1..Len(result.matches) :
            /\ result.matches[i].rank = i
            /\ i < Len(result.matches) =>
                   result.matches[i].similarity_score
                       >= result.matches[i + 1].similarity_score

\* A search whose threshold drops a document the query returned and keeps
\* another.
C27_Witness ==
    /\ result.op \in FindOps
    /\ result.status = "return"
    /\ result.matches # <<>>
    /\ Len(result.matches)
           < Len(CollectionQuery(resumes, result.query, result.top_k, result.where))

\* C28: every /api/match-candidates request whose retrieval succeeded is
\* answered in the end, also when generation calls never return: a call that
\* has not returned when the response is assembled carries the timed-out
\* placeholder, and the response is assembled only when each of the K calls
\* has completed or timed out.
C28_EventuallyResponds ==
    /\ (request.phase = "gather") ~> (request.phase = "responded")
    /\ [](Answered =>
            /\ Len(result.matches) = Len(request.pc)
            /\ \A i \in 1..Len(request.pc) :
                  /\ request.questions_results[i].kind # "pending"
                  /\ request.pc[i] # "done" =>
                         result.matches[i].interview_questions.kind = "timed_out")

\* A response to MaxId calls of which none has returned.
C28_Witness ==
    /\ Answered
    /\ Len(request.pc) = MaxId
    /\ \A i \in 1..MaxId :
          /\ request.pc[i] # "done"
          /\ result.matches[i].interview_questions.kind = "timed_out"

\* The signals of a record that are present, with the score of each.
PresentSignals(parsed) ==
    {sig \in {<<"email", 80000>>, <<"name", 70000>>, <<"phone", 60000>>,
              <<"education", 70000>>, <<"experience", 70000>>} :
        IF sig[1] \in {"education", "experience"}
        THEN parsed[sig[1]] > 0
        ELSE parsed[sig[1]] = "found"}
    \cup (IF parsed.skill_confidences = <<>> THEN {}
          ELSE {<<"skills",
                  ((SumSeq(parsed.skill_confidences)
                       \div Len(parsed.skill_confidences)) * 8) \div 10>>})

RECURSIVE SumScores(_)
SumScores(S) ==
    IF S = {} THEN 0
    ELSE LET sig == CHOOSE x \in S : TRUE
         IN sig[2] + SumScores(S \ {sig})

\* C29: for every combination of present and absent signals,
\* _calculate_confidence returns the average of the scores of the present
\* signals, a number in [0, 1] that is 0.0 exactly when no signal is present,
\* and validate_parsed_data accepts the record.
C29_ConfidenceAverage ==
    result.op = "calculate_confidence" =>
        LET present == PresentSignals(result.parsed)
            confidence == result.parsed.extraction_confidence
        IN /\ present # {} =>
                  confidence = SumScores(present) \div Cardinality(present)
           /\ 0 <= confidence /\ confidence <= One
           /\ confidence = 0 <=> present = {}
           /\ result.status = "True"

\* A record with every signal present and MaxItems skills of different
\* confidences.
C29_Witness ==
    /\ result.op = "calculate_confidence"
    /\ Cardinality(PresentSignals(result.parsed)) = 6
    /\ Len(result.parsed.skill_confidences) = MaxItems
    /\ result.parsed.skill_confidences[1] # result.parsed.skill_confidences[MaxItems]

\* C30: an upload with a missing filename or with a file extension that is
\* not accepted is rejected with HTTP status 400, and the vector store is
\* left as it was.
C30_BadUploadRejected ==
    (result.op = "upload_resume" /\ result.status \in {"no_filename", "unsupported"}) =>
        /\ result.http = 400
        /\ CollectionCount(resume_collection) = result.count_before

====
